---- MODULE Spec2Model ----
(***************************************************************************)
(* RoverGUI backend: the camera manager (managers/camera_manager.py) and   *)
(* the HTTP handlers that drive it (api.py).                               *)
(*                                                                         *)
(* Control paths.  The handlers are `async def` functions without an       *)
(* await: the event loop runs one handler at a time (variable `handler`).  *)
(* A streaming response iterates its generator on worker threads, so the   *)
(* body of Camera.stream runs concurrently with the handlers and with the  *)
(* other generators (variable `sessions`, one entry per generator).  The   *)
(* generator body does not run before the transport first pulls from it.   *)
(* Every read or write of a shared Camera field is one step.               *)
(*                                                                         *)
(* Specifications.  Spec: the handlers for start, end and resolution with  *)
(* Camera.stream as the generator, all interleavings.  SpecSeq: every      *)
(* handler, the operations one after another.  SpecPace: Camera.stream     *)
(* with its pacing locals on a millisecond clock.  SpecFrames: the         *)
(* generator api.py itself defines, generate_frames, on the same clock.    *)
(***************************************************************************)
EXTENDS Integers, Sequences, FiniteSets, TLC

\* ------------------------------------------------------------------ bounds

\* Cameras the enumeration returned at construction (the registry is fixed).
NumCameras == 1
\* Device opens (cv2.VideoCapture(path)) over a run.
MaxOpens == 2
\* Streaming responses (generators) created over a run.
MaxSessions == 2
\* Streaming responses created over a run of the specifications that have
\* every handler (SpecSeq) or a wall clock (SpecFrames, SpecPace).
FewSessions == 1
\* The wall clock: its reading when the run begins, the milliseconds between
\* two readings that differ, and how many times it advances over a run.
Epoch == 1000
TickMs == 10
MaxTicks == 5

\* ---------------------------------------------------------------- constants

DefaultFps == 30
DefaultQuality == 90
DefaultHorizontal == 640
DefaultVertical == 480

None == 0

Cameras == 1..NumCameras
Handles == 1..MaxOpens

\* Camera.set_image_quality, line 232: the accepted range.
MinQuality == 0
MaxQuality == 100

\* Inputs of the requests.
ResolutionInputs == {<<DefaultHorizontal, DefaultVertical>>, <<1280, 720>>}
FpsInputs == {60, 100}
QualityInputs == {-1, MinQuality, MaxQuality, 101, 150}
\* The cameras whose frame rate and image quality the client sets.
Configured == {1}
\* The handlers that look a camera up by name, asked for a name the registry
\* does not have.
NameLookups == {"end_stream", "set_fps", "set_resolution", "set_image_quality"}

VARIABLES
    video_capture,   \* Camera.video_capture: a handle, or None
    is_capturing,    \* Camera.is_capturing
    is_streaming,    \* Camera.is_streaming
    fps,             \* Camera.fps
    resolution,      \* Camera.resolution, <<horizontal, vertical>>
    image_quality,   \* Camera.image_quality
    device,          \* every cv2.VideoCapture object made so far: its camera and state
    sessions,        \* the generators of the streaming responses, in creation order: each
                     \* with its camera, its place in Camera.stream, the cap its request
                     \* opened, and whether its request followed an end_stream
    handler,         \* the request the event loop is serving, and where it stands
    ended,           \* per camera: end_stream succeeded and no stream was started since
    pacer            \* the wall clock in milliseconds and, per generator, the locals of
                     \* its pacing loop: time_since_last_frame, wait_time, and when it
                     \* last handed a frame to the transport (0: not yet)

cam_vars == <<video_capture, is_capturing, is_streaming, fps, resolution, image_quality>>
vars == <<video_capture, is_capturing, is_streaming, fps, resolution, image_quality,
          device, sessions, handler, ended, pacer>>

\* ------------------------------------------------------------------ helpers

Idle == [op |-> "none", pc |-> "idle", cam |-> None, arg |-> None, cap |-> None, old |-> None,
         status |-> 0]

\* api.py fps_to_ms, lines 25-29: (1 / fps) * 1000 milliseconds, kept as the
\* fraction 1000 / fps.  For a whole number e of milliseconds and every fps
\* from 1 to 2000 the float comparison e > (1 / fps) * 1000 gives the same
\* answer as e * fps > 1000.
fps_to_ms(f) == [num |-> 1000, den |-> f]

\* wait_time before the loop's first pass has assigned it.
NoInterval == [num |-> 0, den |-> 1]

\* The time test of the pacing loops: e > w for e whole milliseconds and w an
\* interval.
Exceeds(e, w) == e * w.den > w.num

\* A device object that does not exist yet.
Unused == [cam |-> None, st |-> "unused"]

\* The next cv2.VideoCapture object to be constructed.
NextHandle == CHOOSE n \in Handles : device[n].st = "unused" /\ \A m \in 1..(n - 1) : device[m].st # "unused"

CanOpen == \E n \in Handles : device[n].st = "unused"

\* cv2.VideoCapture.release(): closes an open device; no effect otherwise.
Released(dev, n) == IF dev[n].st = "open" THEN [dev EXCEPT ![n].st = "released"] ELSE dev

\* Camera's constructor as the registry calls it: Camera(camera_name, camera_path).
InitCamera ==
    /\ video_capture = [c \in Cameras |-> None]
    /\ is_capturing = [c \in Cameras |-> FALSE]
    /\ is_streaming = [c \in Cameras |-> FALSE]
    /\ fps = [c \in Cameras |-> DefaultFps]
    /\ resolution = [c \in Cameras |-> <<DefaultHorizontal, DefaultVertical>>]
    /\ image_quality = [c \in Cameras |-> DefaultQuality]

Init ==
    /\ InitCamera
    /\ device = [n \in Handles |-> Unused]
    /\ sessions = <<>>
    /\ handler = Idle
    /\ ended = [c \in Cameras |-> FALSE]
    /\ pacer = [now |-> Epoch,
                last |-> [s \in 1..MaxSessions |-> 0],
                wait |-> [s \in 1..MaxSessions |-> NoInterval],
                emit |-> [s \in 1..MaxSessions |-> 0]]

\* CameraManager.camera_is_running(name), which start_stream calls: whether a
\* stream is running for the camera.
camera_is_running(c) == is_streaming[c]

\* CameraManager.cameras, lines 250-261: the registry's list, in the order of
\* the enumeration.
cameras == [i \in 1..NumCameras |-> i]

\* CameraManager.get_available_cameras, lines 289-297: the cameras of the list
\* that are not streaming, in the list's order.
get_available_cameras == SelectSeq(cameras, LAMBDA c : ~is_streaming[c])

\* A generator that has been entered and has neither returned nor raised.
Active(s) == sessions[s].pc \notin {"new", "done", "crashed"}

ActiveSessions(c) == {s \in 1..Len(sessions) : sessions[s].cam = c /\ Active(s)}

OpenHandles(c) == {n \in Handles : device[n].cam = c /\ device[n].st = "open"}

\* ------------------------------------------------- Camera.stream (generator)

SetPc(s, pc) == sessions' = [sessions EXCEPT ![s].pc = pc]

\* line 161: the first pull enters the body, which sets is_streaming.
stream_enter(s) ==
    /\ sessions[s].pc = "new"
    /\ is_streaming' = [is_streaming EXCEPT ![sessions[s].cam] = TRUE]
    /\ SetPc(s, "while")
    /\ UNCHANGED <<video_capture, is_capturing, fps, resolution, image_quality, device, handler, ended, pacer>>

\* line 164: while self.is_streaming
stream_while(s) ==
    /\ sessions[s].pc = "while"
    /\ SetPc(s, IF is_streaming[sessions[s].cam] THEN "cond" ELSE "stop_release")
    /\ UNCHANGED <<cam_vars, device, handler, ended, pacer>>

\* line 171: if self.is_capturing and <the interval has elapsed>
stream_cond(s) ==
    /\ sessions[s].pc = "cond"
    /\ \E elapsed \in BOOLEAN :
          SetPc(s, IF is_capturing[sessions[s].cam] /\ elapsed THEN "read" ELSE "while")
    /\ UNCHANGED <<cam_vars, device, handler, ended, pacer>>

\* Camera.read, line 97: if self.is_capturing and self.video_capture is not None
stream_read_check(s) ==
    /\ sessions[s].pc = "read"
    /\ LET c == sessions[s].cam IN
          SetPc(s, IF is_capturing[c] /\ video_capture[c] # None THEN "read_call" ELSE "sleep")
    /\ UNCHANGED <<cam_vars, device, handler, ended, pacer>>

\* Camera.read, line 98: self.video_capture.read().  The attribute is loaded
\* again: on None the call raises AttributeError and the generator dies; a
\* device that is not open gives (False, None); an open one gives a frame or not.
stream_read_call(s) ==
    /\ sessions[s].pc = "read_call"
    /\ LET c == sessions[s].cam IN
          IF video_capture[c] = None
          THEN SetPc(s, "crashed")
          ELSE IF device[video_capture[c]].st = "open"
               THEN \E success \in BOOLEAN : SetPc(s, IF success THEN "yield" ELSE "while")
               ELSE SetPc(s, "while")
    /\ UNCHANGED <<cam_vars, device, handler, ended, pacer>>

\* lines 174-177: read() gave None: sleep a second, continue.
stream_sleep(s) ==
    /\ sessions[s].pc = "sleep"
    /\ SetPc(s, "while")
    /\ UNCHANGED <<cam_vars, device, handler, ended, pacer>>

\* lines 186-191: encode, yield; the next pull resumes the loop.
stream_yield(s) ==
    /\ sessions[s].pc = "yield"
    /\ SetPc(s, "while")
    /\ UNCHANGED <<cam_vars, device, handler, ended, pacer>>

\* line 192 -> Camera.stop, lines 148-149
stream_stop_release(s) ==
    /\ sessions[s].pc = "stop_release"
    /\ LET c == sessions[s].cam IN
          device' = IF video_capture[c] # None THEN Released(device, video_capture[c]) ELSE device
    /\ SetPc(s, "stop_flag")
    /\ UNCHANGED <<cam_vars, handler, ended, pacer>>

\* stop() that sets is_capturing instead of clearing it.
stream_stop_flag_inverted(s) ==
    /\ sessions[s].pc = "stop_flag"
    /\ is_capturing' = [is_capturing EXCEPT ![sessions[s].cam] = TRUE]
    /\ SetPc(s, "stop_null")
    /\ UNCHANGED <<video_capture, is_streaming, fps, resolution, image_quality, device, handler, ended, pacer>>

\* Camera.stop, line 150
stream_stop_flag(s) ==
    /\ sessions[s].pc = "stop_flag"
    /\ is_capturing' = [is_capturing EXCEPT ![sessions[s].cam] = FALSE]
    /\ SetPc(s, "stop_null")
    /\ UNCHANGED <<video_capture, is_streaming, fps, resolution, image_quality, device, handler, ended, pacer>>

\* Camera.stop, line 151; the generator returns.
stream_stop_null(s) ==
    /\ sessions[s].pc = "stop_null"
    /\ video_capture' = [video_capture EXCEPT ![sessions[s].cam] = None]
    /\ SetPc(s, "done")
    /\ UNCHANGED <<is_capturing, is_streaming, fps, resolution, image_quality, device, handler, ended, pacer>>

\* ------------------------------- Camera.stream with its pacing locals, on a clock

\* lines 161-163: the first pull enters the body, which sets is_streaming and
\* time_since_last_frame = 0.
pace_enter(s) ==
    /\ sessions[s].pc = "new"
    /\ is_streaming' = [is_streaming EXCEPT ![sessions[s].cam] = TRUE]
    /\ pacer' = [pacer EXCEPT !.last[s] = 0]
    /\ SetPc(s, "while")
    /\ UNCHANGED <<video_capture, is_capturing, fps, resolution, image_quality, device, handler, ended>>

\* line 164: while self.is_streaming
pace_while(s) ==
    /\ sessions[s].pc = "while"
    /\ SetPc(s, IF is_streaming[sessions[s].cam] THEN "interval" ELSE "stop_release")
    /\ UNCHANGED <<cam_vars, device, handler, ended, pacer>>

\* line 166: wait_time = fps_to_ms(self.fps)
pace_interval(s) ==
    /\ sessions[s].pc = "interval"
    /\ pacer' = [pacer EXCEPT !.wait[s] = fps_to_ms(fps[sessions[s].cam])]
    /\ SetPc(s, "cond")
    /\ UNCHANGED <<cam_vars, device, handler, ended>>

\* line 171: if self.is_capturing and time.time() * 1000 - time_since_last_frame > wait_time
pace_cond(s) ==
    /\ sessions[s].pc = "cond"
    /\ SetPc(s, IF /\ is_capturing[sessions[s].cam]
                   /\ Exceeds(pacer.now - pacer.last[s], pacer.wait[s])
                THEN "read" ELSE "while")
    /\ UNCHANGED <<cam_vars, device, handler, ended, pacer>>

\* lines 186-190: the frame is encoded and yielded to the transport.
pace_yield(s) ==
    /\ sessions[s].pc = "yield"
    /\ pacer' = [pacer EXCEPT !.emit[s] = pacer.now]
    /\ SetPc(s, "resume")
    /\ UNCHANGED <<cam_vars, device, handler, ended>>

\* line 191: on the next pull, time_since_last_frame = time.time() * 1000
pace_resume(s) ==
    /\ sessions[s].pc = "resume"
    /\ pacer' = [pacer EXCEPT !.last[s] = pacer.now]
    /\ SetPc(s, "while")
    /\ UNCHANGED <<cam_vars, device, handler, ended>>

\* --------------------------------------------------------- request handlers

Request(op, c) == [Idle EXCEPT !.op = op, !.cam = c]

Reply(status) == handler' = [handler EXCEPT !.pc = "respond", !.status = status]

\* Camera.is_running, which the end_stream handler reads: the streaming flag.
is_running(c) == is_streaming[c]

\* api.py lines 76-80: a camera that is already streaming is refused with 400;
\* otherwise the handler goes on to open the device.
start_stream_check(c) ==
    /\ handler.pc = "idle"
    /\ IF camera_is_running(c)
       THEN handler' = [Request("start_stream", c) EXCEPT !.pc = "respond", !.status = 400]
       ELSE /\ CanOpen
            /\ Len(sessions) < MaxSessions
            /\ handler' = [Request("start_stream", c) EXCEPT !.pc = "open"]
    /\ UNCHANGED <<cam_vars, device, sessions, ended, pacer>>

\* api.py lines 83-84: cap = cv2.VideoCapture(path).  The open succeeds or not.
start_stream_open ==
    /\ handler.pc = "open"
    /\ handler.op = "start_stream"
    /\ \E ok \in BOOLEAN :
          device' = [device EXCEPT ![NextHandle] =
                        [cam |-> handler.cam, st |-> IF ok THEN "open" ELSE "failed"]]
    /\ handler' = [handler EXCEPT !.cap = NextHandle, !.pc = "start_release"]
    /\ UNCHANGED <<cam_vars, sessions, ended, pacer>>

\* Camera.start, lines 111-112: a handle already held is released first.
start_release ==
    /\ handler.pc = "start_release"
    /\ LET c == handler.cam IN
          device' = IF video_capture[c] # None THEN Released(device, video_capture[c]) ELSE device
    /\ handler' = [handler EXCEPT !.pc = "start_set"]
    /\ UNCHANGED <<cam_vars, sessions, ended, pacer>>

\* Camera.start, line 114
start_set ==
    /\ handler.pc = "start_set"
    /\ video_capture' = [video_capture EXCEPT ![handler.cam] = handler.cap]
    /\ handler' = [handler EXCEPT !.pc = "start_flag"]
    /\ UNCHANGED <<is_capturing, is_streaming, fps, resolution, image_quality, device, sessions, ended, pacer>>

\* Camera.start, line 115; start returns to start_stream or to reset, whose
\* caller then answers 200.
start_flag ==
    /\ handler.pc = "start_flag"
    /\ is_capturing' = [is_capturing EXCEPT ![handler.cam] = TRUE]
    /\ IF handler.op = "start_stream"
       THEN handler' = [handler EXCEPT !.pc = "return"]
       ELSE Reply(200)
    /\ UNCHANGED <<video_capture, is_streaming, fps, resolution, image_quality, device, sessions, ended, pacer>>

\* api.py lines 90-93: the streaming response and its generator are created;
\* the generator's body has not run yet.
start_stream_return ==
    /\ handler.pc = "return"
    /\ sessions' = Append(sessions, [cam |-> handler.cam, pc |-> "new", cap |-> handler.cap,
                                     restart |-> ended[handler.cam]])
    /\ ended' = [ended EXCEPT ![handler.cam] = FALSE]
    /\ Reply(200)
    /\ UNCHANGED <<cam_vars, device, pacer>>

\* CameraManager.end_video_capture(name), which the end_stream handler calls:
\* ends the camera's stream, Camera.end_stream (line 198).
end_video_capture(c) == is_streaming' = [is_streaming EXCEPT ![c] = FALSE]

\* api.py lines 96-107: 200 after ending the stream of a camera that is
\* streaming, 400 for one that is not.
end_stream(c) ==
    /\ handler.pc = "idle"
    /\ IF is_running(c)
       THEN /\ end_video_capture(c)
            /\ ended' = [ended EXCEPT ![c] = TRUE]
            /\ handler' = [Request("end_stream", c) EXCEPT !.pc = "respond", !.status = 200]
       ELSE /\ handler' = [Request("end_stream", c) EXCEPT !.pc = "respond", !.status = 400]
            /\ UNCHANGED <<is_streaming, ended>>
    /\ UNCHANGED <<video_capture, is_capturing, fps, resolution, image_quality, device, sessions, pacer>>

\* api.py lines 148-155 with Camera.set_current_resolution, lines 206-210:
\* with a handle the resolution is stored and reset() begins; without one
\* CameraNotStartedError is raised, which the handler does not catch (500).
set_camera_resolution(c, r) ==
    /\ handler.pc = "idle"
    /\ IF video_capture[c] # None
       THEN /\ CanOpen
            /\ resolution' = [resolution EXCEPT ![c] = r]
            /\ handler' = [Request("set_resolution", c) EXCEPT !.arg = r, !.pc = "stop_release"]
       ELSE /\ handler' = [Request("set_resolution", c) EXCEPT !.arg = r, !.pc = "respond",
                                                                !.status = 500]
            /\ UNCHANGED resolution
    /\ UNCHANGED <<video_capture, is_capturing, is_streaming, fps, image_quality, device, sessions, ended, pacer>>

\* stop() without the release of the handle it finds.
stop_release_leaks ==
    /\ handler.pc = "stop_release"
    /\ handler' = [handler EXCEPT !.pc = "stop_flag", !.old = video_capture[handler.cam]]
    /\ UNCHANGED <<cam_vars, device, sessions, ended, pacer>>

\* Camera.reset line 128 -> Camera.stop, lines 148-149.  `old` keeps the handle
\* that stop() found on the camera.
stop_release ==
    /\ handler.pc = "stop_release"
    /\ LET c == handler.cam IN
          device' = IF video_capture[c] # None THEN Released(device, video_capture[c]) ELSE device
    /\ handler' = [handler EXCEPT !.pc = "stop_flag", !.old = video_capture[handler.cam]]
    /\ UNCHANGED <<cam_vars, sessions, ended, pacer>>

\* Camera.stop, line 150
stop_flag ==
    /\ handler.pc = "stop_flag"
    /\ is_capturing' = [is_capturing EXCEPT ![handler.cam] = FALSE]
    /\ handler' = [handler EXCEPT !.pc = "stop_null"]
    /\ UNCHANGED <<video_capture, is_streaming, fps, resolution, image_quality, device, sessions, ended, pacer>>

\* Camera.stop, line 151
stop_null ==
    /\ handler.pc = "stop_null"
    /\ video_capture' = [video_capture EXCEPT ![handler.cam] = None]
    /\ handler' = [handler EXCEPT !.pc = "open"]
    /\ UNCHANGED <<is_capturing, is_streaming, fps, resolution, image_quality, device, sessions, ended, pacer>>

\* reset() without the isOpened test: start(cap) whatever the open gave.
reset_open_unchecked ==
    /\ handler.pc = "open"
    /\ handler.op = "set_resolution"
    /\ \E ok \in BOOLEAN :
          device' = [device EXCEPT ![NextHandle] =
                        [cam |-> handler.cam, st |-> IF ok THEN "open" ELSE "failed"]]
    /\ handler' = [handler EXCEPT !.cap = NextHandle, !.pc = "start_release"]
    /\ UNCHANGED <<cam_vars, sessions, ended, pacer>>

\* Camera.reset, lines 132-142: a new device object is made; if it did not open
\* the error is logged and reset returns normally, else start(cap) follows.
reset_open ==
    /\ handler.pc = "open"
    /\ handler.op = "set_resolution"
    /\ \E ok \in BOOLEAN :
          /\ device' = [device EXCEPT ![NextHandle] =
                           [cam |-> handler.cam, st |-> IF ok THEN "open" ELSE "failed"]]
          /\ handler' = IF ok
                        THEN [handler EXCEPT !.cap = NextHandle, !.pc = "start_release"]
                        ELSE [handler EXCEPT !.cap = NextHandle, !.pc = "respond", !.status = 200]
    /\ UNCHANGED <<cam_vars, sessions, ended, pacer>>

\* set_fps that also ends the camera's stream.
set_camera_fps_ends_stream(c, f) ==
    /\ handler.pc = "idle"
    /\ IF video_capture[c] # None
       THEN /\ fps' = [fps EXCEPT ![c] = f]
            /\ is_streaming' = [is_streaming EXCEPT ![c] = FALSE]
            /\ handler' = [Request("set_fps", c) EXCEPT !.arg = f, !.pc = "respond", !.status = 200]
       ELSE /\ handler' = [Request("set_fps", c) EXCEPT !.arg = f, !.pc = "respond", !.status = 500]
            /\ UNCHANGED <<fps, is_streaming>>
    /\ UNCHANGED <<video_capture, is_capturing, resolution, image_quality,
                   device, sessions, ended, pacer>>

\* api.py lines 119-128 with Camera.set_fps, lines 212-222: with a handle the
\* value is given to the device and stored; without one CameraNotStartedError
\* is raised, which the handler does not catch (500).
set_camera_fps(c, f) ==
    /\ handler.pc = "idle"
    /\ IF video_capture[c] # None
       THEN /\ fps' = [fps EXCEPT ![c] = f]
            /\ handler' = [Request("set_fps", c) EXCEPT !.arg = f, !.pc = "respond", !.status = 200]
       ELSE /\ handler' = [Request("set_fps", c) EXCEPT !.arg = f, !.pc = "respond", !.status = 500]
            /\ UNCHANGED fps
    /\ UNCHANGED <<video_capture, is_capturing, is_streaming, resolution, image_quality,
                   device, sessions, ended, pacer>>

\* set_image_quality without the range test.
set_camera_image_quality_unchecked(c, q) ==
    /\ handler.pc = "idle"
    /\ IF video_capture[c] # None
       THEN /\ image_quality' = [image_quality EXCEPT ![c] = q]
            /\ handler' = [Request("set_image_quality", c) EXCEPT !.arg = q, !.pc = "respond",
                                                                   !.status = 200]
       ELSE /\ handler' = [Request("set_image_quality", c) EXCEPT !.arg = q, !.pc = "respond",
                                                                   !.status = 500]
            /\ UNCHANGED image_quality
    /\ UNCHANGED <<video_capture, is_capturing, is_streaming, fps, resolution, device,
                   sessions, ended, pacer>>

\* api.py lines 170-179 with Camera.set_image_quality, lines 224-239: a value
\* outside 0..100 raises ValueError before anything else; then as set_fps.
\* The handler catches neither ValueError nor CameraNotStartedError (500).
set_camera_image_quality(c, q) ==
    /\ handler.pc = "idle"
    /\ IF q < MinQuality \/ q > MaxQuality
       THEN /\ handler' = [Request("set_image_quality", c) EXCEPT !.arg = q, !.pc = "respond",
                                                                   !.status = 500]
            /\ UNCHANGED image_quality
       ELSE IF video_capture[c] # None
            THEN /\ image_quality' = [image_quality EXCEPT ![c] = q]
                 /\ handler' = [Request("set_image_quality", c) EXCEPT !.arg = q, !.pc = "respond",
                                                                        !.status = 200]
            ELSE /\ handler' = [Request("set_image_quality", c) EXCEPT !.arg = q, !.pc = "respond",
                                                                        !.status = 500]
                 /\ UNCHANGED image_quality
    /\ UNCHANGED <<video_capture, is_capturing, is_streaming, fps, resolution, device,
                   sessions, ended, pacer>>

\* A request that names a camera the registry does not have: get_camera
\* (camera_manager.py lines 263-274) raises CameraNotFoundError.  set_camera_fps,
\* set_camera_resolution and set_camera_image_quality catch it and answer 404
\* (api.py lines 126-127, 153-154, 177-178); end_stream calls get_camera outside
\* any try (api.py line 101), so the error leaves the handler (500).
unknown_camera(op) ==
    /\ handler.pc = "idle"
    /\ handler' = [Request(op, None) EXCEPT !.pc = "respond",
                                            !.status = IF op = "end_stream" THEN 500 ELSE 404]
    /\ UNCHANGED <<cam_vars, device, sessions, ended, pacer>>

\* The response is sent; the event loop takes the next request.
respond ==
    /\ handler.pc = "respond"
    /\ handler' = Idle
    /\ UNCHANGED <<cam_vars, device, sessions, ended, pacer>>

\* ------------------------------------------- generate_frames (api.py generator)

\* api.py lines 90-93 as written: the generator of the streaming response is
\* generate_frames(cap, camera_name), which keeps the cap the request opened.
start_stream_return_frames ==
    /\ handler.pc = "return"
    /\ sessions' = Append(sessions, [cam |-> handler.cam, pc |-> "gf_new", cap |-> handler.cap,
                                     restart |-> ended[handler.cam]])
    /\ ended' = [ended EXCEPT ![handler.cam] = FALSE]
    /\ Reply(200)
    /\ UNCHANGED <<cam_vars, device, pacer>>

\* The flag generate_frames loops on is raised when the stream begins.
generate_frames_enter(s) ==
    /\ sessions[s].pc = "gf_new"
    /\ is_streaming' = [is_streaming EXCEPT ![sessions[s].cam] = TRUE]
    /\ SetPc(s, "gf_init")
    /\ UNCHANGED <<video_capture, is_capturing, fps, resolution, image_quality, device, handler, ended, pacer>>

\* api.py line 40: time_since_last_frame = 0
generate_frames_init(s) ==
    /\ sessions[s].pc = "gf_init"
    /\ pacer' = [pacer EXCEPT !.last[s] = 0]
    /\ SetPc(s, "gf_while")
    /\ UNCHANGED <<cam_vars, device, handler, ended>>

\* api.py line 41: while camera.is_running; after the loop comes line 63.
generate_frames_while(s) ==
    /\ sessions[s].pc = "gf_while"
    /\ SetPc(s, IF is_running(sessions[s].cam) THEN "gf_interval" ELSE "gf_release")
    /\ UNCHANGED <<cam_vars, device, handler, ended, pacer>>

\* api.py line 43: wait_time = fps_to_ms(camera.fps)
generate_frames_interval(s) ==
    /\ sessions[s].pc = "gf_interval"
    /\ pacer' = [pacer EXCEPT !.wait[s] = fps_to_ms(fps[sessions[s].cam])]
    /\ SetPc(s, "gf_read")
    /\ UNCHANGED <<cam_vars, device, handler, ended>>

\* api.py lines 46-48: success, frame = cap.read() on every pass; a read that
\* fails breaks out of the loop.  An open device gives a frame or not, one that
\* is not open gives none.
generate_frames_read(s) ==
    /\ sessions[s].pc = "gf_read"
    /\ IF device[sessions[s].cap].st = "open"
       THEN \E success \in BOOLEAN : SetPc(s, IF success THEN "gf_time" ELSE "gf_release")
       ELSE SetPc(s, "gf_release")
    /\ UNCHANGED <<cam_vars, device, handler, ended, pacer>>

\* api.py line 52: if time.time() * 1000 - time_since_last_frame > wait_time
generate_frames_time(s) ==
    /\ sessions[s].pc = "gf_time"
    /\ SetPc(s, IF Exceeds(pacer.now - pacer.last[s], pacer.wait[s]) THEN "gf_yield" ELSE "gf_while")
    /\ UNCHANGED <<cam_vars, device, handler, ended, pacer>>

\* api.py lines 54-60: the frame is encoded and yielded to the transport.
generate_frames_yield(s) ==
    /\ sessions[s].pc = "gf_yield"
    /\ pacer' = [pacer EXCEPT !.emit[s] = pacer.now]
    /\ SetPc(s, "gf_resume")
    /\ UNCHANGED <<cam_vars, device, handler, ended>>

\* api.py line 61: on the next pull, time_since_last_frame = time.time() * 1000
generate_frames_resume(s) ==
    /\ sessions[s].pc = "gf_resume"
    /\ pacer' = [pacer EXCEPT !.last[s] = pacer.now]
    /\ SetPc(s, "gf_while")
    /\ UNCHANGED <<cam_vars, device, handler, ended>>

\* api.py line 63: cap.release(); the generator returns.
generate_frames_release(s) ==
    /\ sessions[s].pc = "gf_release"
    /\ device' = Released(device, sessions[s].cap)
    /\ SetPc(s, "gf_done")
    /\ UNCHANGED <<cam_vars, handler, ended, pacer>>

\* The wall clock advances.
tick ==
    /\ pacer.now < Epoch + TickMs * MaxTicks
    /\ pacer' = [pacer EXCEPT !.now = pacer.now + TickMs]
    /\ UNCHANGED <<cam_vars, device, sessions, handler, ended>>

\* ------------------------------------------------------------ specification

Next ==
    \/ \E s \in 1..Len(sessions) : stream_enter(s)
    \/ \E s \in 1..Len(sessions) : stream_while(s)
    \/ \E s \in 1..Len(sessions) : stream_cond(s)
    \/ \E s \in 1..Len(sessions) : stream_read_check(s)
    \/ \E s \in 1..Len(sessions) : stream_read_call(s)
    \/ \E s \in 1..Len(sessions) : stream_sleep(s)
    \/ \E s \in 1..Len(sessions) : stream_yield(s)
    \/ \E s \in 1..Len(sessions) : stream_stop_release(s)
    \/ \E s \in 1..Len(sessions) : stream_stop_flag(s)
    \/ \E s \in 1..Len(sessions) : stream_stop_null(s)
    \/ \E c \in Cameras : start_stream_check(c)
    \/ start_stream_open
    \/ start_release
    \/ start_set
    \/ start_flag
    \/ start_stream_return
    \/ \E c \in Cameras : end_stream(c)
    \/ \E c \in Cameras, r \in ResolutionInputs : set_camera_resolution(c, r)
    \/ stop_release
    \/ stop_flag
    \/ stop_null
    \/ reset_open
    \/ respond

Spec == Init /\ [][Next]_vars

\* No generator is inside the stop() of its loop exit.
OutsideStop == \A s \in 1..Len(sessions) : sessions[s].pc \notin {"stop_flag", "stop_null"}

\* The same program with its operations one after another: a generator step
\* is taken only between two requests, and a request is taken only while no
\* generator is inside stop(), so no step of another control path falls inside
\* a handler or inside a stop().  All the handlers are here, the two
\* live-parameter setters and the unknown names included.
NextSeq ==
    \/ handler.pc = "idle" /\ \E s \in 1..Len(sessions) : stream_enter(s)
    \/ handler.pc = "idle" /\ \E s \in 1..Len(sessions) : stream_while(s)
    \/ handler.pc = "idle" /\ \E s \in 1..Len(sessions) : stream_cond(s)
    \/ handler.pc = "idle" /\ \E s \in 1..Len(sessions) : stream_read_check(s)
    \/ handler.pc = "idle" /\ \E s \in 1..Len(sessions) : stream_read_call(s)
    \/ handler.pc = "idle" /\ \E s \in 1..Len(sessions) : stream_sleep(s)
    \/ handler.pc = "idle" /\ \E s \in 1..Len(sessions) : stream_yield(s)
    \/ handler.pc = "idle" /\ \E s \in 1..Len(sessions) : stream_stop_release(s)
    \/ handler.pc = "idle" /\ \E s \in 1..Len(sessions) : stream_stop_flag(s)
    \/ handler.pc = "idle" /\ \E s \in 1..Len(sessions) : stream_stop_null(s)
    \/ OutsideStop /\ Len(sessions) < FewSessions /\ \E c \in Cameras : start_stream_check(c)
    \/ start_stream_open
    \/ start_release
    \/ start_set
    \/ start_flag
    \/ start_stream_return
    \/ OutsideStop /\ \E c \in Cameras : end_stream(c)
    \/ OutsideStop /\ \E c \in Cameras, r \in ResolutionInputs : set_camera_resolution(c, r)
    \/ stop_release
    \/ stop_flag
    \/ stop_null
    \/ reset_open
    \/ OutsideStop /\ \E c \in Configured, f \in FpsInputs : set_camera_fps(c, f)
    \/ OutsideStop /\ \E c \in Configured, q \in QualityInputs : set_camera_image_quality(c, q)
    \/ OutsideStop /\ \E op \in NameLookups : unknown_camera(op)
    \/ respond

SpecSeq == Init /\ [][NextSeq]_vars

\* The program with the generator api.py gives to the streaming response,
\* generate_frames, and a wall clock.  The generator runs on a worker thread, so
\* its steps fall between the steps of the handlers.
NextFrames ==
    \/ \E s \in 1..Len(sessions) : generate_frames_enter(s)
    \/ \E s \in 1..Len(sessions) : generate_frames_init(s)
    \/ \E s \in 1..Len(sessions) : generate_frames_while(s)
    \/ \E s \in 1..Len(sessions) : generate_frames_interval(s)
    \/ \E s \in 1..Len(sessions) : generate_frames_read(s)
    \/ \E s \in 1..Len(sessions) : generate_frames_time(s)
    \/ \E s \in 1..Len(sessions) : generate_frames_yield(s)
    \/ \E s \in 1..Len(sessions) : generate_frames_resume(s)
    \/ \E s \in 1..Len(sessions) : generate_frames_release(s)
    \/ tick
    \/ Len(sessions) < FewSessions /\ \E c \in Cameras : start_stream_check(c)
    \/ start_stream_open
    \/ start_release
    \/ start_set
    \/ start_flag
    \/ start_stream_return_frames
    \/ \E c \in Cameras : end_stream(c)
    \/ \E c \in Configured, f \in FpsInputs : set_camera_fps(c, f)
    \/ respond

SpecFrames == Init /\ [][NextFrames]_vars

\* The program with Camera.stream as the generator, its pacing locals kept and
\* a wall clock.  The generator's steps fall between the steps of the handlers.
NextPace ==
    \/ \E s \in 1..Len(sessions) : pace_enter(s)
    \/ \E s \in 1..Len(sessions) : pace_while(s)
    \/ \E s \in 1..Len(sessions) : pace_interval(s)
    \/ \E s \in 1..Len(sessions) : pace_cond(s)
    \/ \E s \in 1..Len(sessions) : stream_read_check(s)
    \/ \E s \in 1..Len(sessions) : stream_read_call(s)
    \/ \E s \in 1..Len(sessions) : stream_sleep(s)
    \/ \E s \in 1..Len(sessions) : pace_yield(s)
    \/ \E s \in 1..Len(sessions) : pace_resume(s)
    \/ \E s \in 1..Len(sessions) : stream_stop_release(s)
    \/ \E s \in 1..Len(sessions) : stream_stop_flag(s)
    \/ \E s \in 1..Len(sessions) : stream_stop_null(s)
    \/ tick
    \/ Len(sessions) < FewSessions /\ \E c \in Cameras : start_stream_check(c)
    \/ start_stream_open
    \/ start_release
    \/ start_set
    \/ start_flag
    \/ start_stream_return
    \/ \E c \in Cameras : end_stream(c)
    \/ \E c \in Cameras, r \in ResolutionInputs : set_camera_resolution(c, r)
    \/ stop_release
    \/ stop_flag
    \/ stop_null
    \/ reset_open
    \/ \E c \in Configured, f \in FpsInputs : set_camera_fps(c, f)
    \/ respond

SpecPace == Init /\ [][NextPace]_vars

\* ------------------------------------------------------------------- claims

SessionsOf(c) == {s \in 1..Len(sessions) : sessions[s].cam = c}

\* A request for the camera is being served, or one of its generators is inside stop().
InOperation(c) ==
    \/ handler.pc # "idle"
    \/ \E s \in SessionsOf(c) : sessions[s].pc \in {"stop_flag", "stop_null"}

HoldsOpenHandle(c) == video_capture[c] # None /\ device[video_capture[c]].st = "open"

\* C1: for every camera at most one stream() loop is active (entered and not
\* yet exited) at any time.
C1_AtMostOneActiveLoop == \A c \in Cameras : Cardinality(ActiveSessions(c)) <= 1

\* C2: at most one opened and not yet released device handle exists for a
\* camera in every reachable state.
C2_AtMostOneOpenHandle == \A c \in Cameras : Cardinality(OpenHandles(c)) <= 1

\* C3: between operations, is_capturing is true if and only if the camera holds
\* a non-null device handle that is open.
C3_CapturingIffOpenHandle ==
    \A c \in Cameras : ~InOperation(c) => (is_capturing[c] <=> HoldsOpenHandle(c))

\* C4: a stream-start request for a camera with an active streaming session is
\* answered 400 and leaves the camera's handle, flags and configuration as they were.
C4_StartRejectedWhileActive ==
    [][\A c \in Cameras :
          (/\ handler.pc = "idle"
           /\ handler'.op = "start_stream"
           /\ handler'.cam = c
           /\ ActiveSessions(c) # {})
          => (handler'.status = 400 /\ UNCHANGED <<cam_vars, device>>)]_vars

\* C5, first part: when a stream start that follows an end_stream opens its
\* device, the handles of the camera's earlier sessions are no longer open.
C5_ReleasedBeforeReopen ==
    (handler.op = "start_stream" /\ handler.pc = "open" /\ ended[handler.cam])
    => \A s \in SessionsOf(handler.cam) : device[sessions[s].cap].st # "open"

\* C5, second part: the stop() of a session's loop exit does not release the
\* handle of a later session that was started after an end_stream.
C5_ExitKeepsLaterHandle ==
    \A s \in 1..Len(sessions) :
        (sessions[s].pc = "stop_release" /\ sessions'[s].pc = "stop_flag")
        => \A t \in (s + 1)..Len(sessions) :
              (sessions[t].cam = sessions[s].cam /\ sessions[t].restart)
              => device'[sessions[t].cap] = device[sessions[t].cap]

\* C5, third part: after an end_stream and a new start, once every session of
\* the camera has stopped, every handle opened for it has been released.
C5_OpensEqualReleases ==
    \A c \in Cameras :
        (/\ handler.pc = "idle"
         /\ \E s \in SessionsOf(c) : sessions[s].restart
         /\ \A s \in SessionsOf(c) : sessions[s].pc = "done")
        => OpenHandles(c) = {}

\* C5: for end_stream followed by a new stream start on the same camera, the
\* first session's handle is released before the second session's is opened, the
\* first session's loop exit does not release the second session's handle, and
\* after each session has stopped the opens equal the releases.
C5_RestartReleasesFirst ==
    /\ [](C5_ReleasedBeforeReopen /\ C5_OpensEqualReleases)
    /\ [][C5_ExitKeepsLaterHandle]_vars

\* C6: after end_stream on a camera whose loop is running, with no new stream
\* started since, once the loops have exited through stop() the camera has its
\* handle released, handle null and is_capturing false.
C6_EndStreamStopsCamera ==
    \A c \in Cameras :
        (/\ ended[c]
         /\ handler.pc = "idle"
         /\ SessionsOf(c) # {}
         /\ \A s \in SessionsOf(c) : sessions[s].pc = "done")
        => (video_capture[c] = None /\ ~is_capturing[c] /\ OpenHandles(c) = {})

\* C7: while set_current_resolution (reset) runs for a camera, the frame read of
\* that camera's loop never executes on a handle that is null or released.
C7_ReadNeverOnClosedHandle ==
    \A s \in 1..Len(sessions) :
        (/\ sessions[s].pc = "read_call"
         /\ handler.op = "set_resolution"
         /\ handler.cam = sessions[s].cam
         /\ handler.pc # "respond")
        => (/\ video_capture[sessions[s].cam] # None
            /\ device[video_capture[sessions[s].cam]].st # "released")

\* C8: when start is given a device whose open failed, the request is not
\* answered 200, the failed device is never installed as the camera's handle,
\* and the stream loop is never entered for that request.
C8_FailedOpenRefused ==
    /\ (handler.op = "start_stream" /\ handler.pc = "respond" /\ handler.cap # None
            /\ device[handler.cap].st = "failed")
       => handler.status # 200
    /\ \A c \in Cameras :
          video_capture[c] # None => device[video_capture[c]].st # "failed"
    /\ \A s \in 1..Len(sessions) :
          device[sessions[s].cap].st = "failed" => sessions[s].pc = "new"

\* The set-resolution request has come to its response after a reopen that failed.
ResetFailed ==
    /\ handler.op = "set_resolution"
    /\ handler.pc = "respond"
    /\ handler.cap # None
    /\ device[handler.cap].st = "failed"

\* C9: if the reopen inside reset() fails, the camera is left stopped: the
\* handle reset() found on the camera is released, the camera's handle is null
\* and is_capturing is false.
C9_ResetFailureLeavesStopped ==
    ResetFailed
    => (/\ video_capture[handler.cam] = None
        /\ ~is_capturing[handler.cam]
        /\ (handler.old # None => device[handler.old].st # "open"))

\* C9 witness: reset released a handle that was open, and its reopen failed.
C9_Witness == ResetFailed /\ handler.old # None /\ device[handler.old].st = "released"

\* C10: the set-resolution request is answered 200 only if the camera is
\* capturing afterwards; a failed reopen is answered with a failure.
C10_ResolutionSuccessMeansCapturing ==
    /\ ResetFailed => handler.status # 200
    /\ (handler.op = "set_resolution" /\ handler.pc = "respond" /\ handler.status = 200)
       => is_capturing[handler.cam]

\* A set-resolution request is inside Camera.set_current_resolution.
InReset == handler.op = "set_resolution" /\ handler.pc \notin {"idle", "respond"}

\* The set-resolution request has come to its response after a reopen that succeeded.
ResetSucceeded ==
    /\ handler.op = "set_resolution"
    /\ handler.pc = "respond"
    /\ handler.cap # None
    /\ device[handler.cap].st = "open"

\* C11, the handles: on a camera that holds an open handle the stop() of the
\* reset releases that handle and nothing else, the open makes one new device
\* object, and no other step of the operation touches a device.
C11_OneReleaseOneOpen ==
    InReset =>
        LET c == handler.cam IN
        CASE handler.pc = "stop_release" ->
                HoldsOpenHandle(c) => device' = [device EXCEPT ![video_capture[c]].st = "released"]
          [] handler.pc = "open" ->
                \E n \in Handles :
                    /\ device[n].st = "unused"
                    /\ device'[n].st \in {"open", "failed"}
                    /\ \A m \in Handles \ {n} : device'[m] = device[m]
          [] OTHER -> device' = device

\* C11, the end: after a reopen that succeeded the camera holds the new handle,
\* open, is capturing, has the requested resolution, and the handle it had
\* before is not open.
C11_EndState ==
    ResetSucceeded =>
        LET c == handler.cam IN
        /\ video_capture[c] = handler.cap
        /\ is_capturing[c]
        /\ resolution[c] = handler.arg
        /\ handler.old # handler.cap
        /\ device[handler.old].st # "open"

\* C11: set_current_resolution(r) on a started camera, when the reopen succeeds
\* and no step of another control path falls inside the operation, releases
\* exactly the previous handle, opens exactly one new handle, and ends with
\* is_capturing true, the new handle installed and resolution equal to r.
C11_ResolutionReopensOnce ==
    /\ []C11_EndState
    /\ [][C11_OneReleaseOneOpen]_vars

\* C11 witness: the request changed the resolution of a camera whose handle was
\* open, released that handle and installed a new open one.
C11_Witness ==
    /\ ResetSucceeded
    /\ handler.arg # <<DefaultHorizontal, DefaultVertical>>
    /\ device[handler.old].st = "released"
    /\ HoldsOpenHandle(handler.cam)

\* C12: a frame read that reports failure does not end the frame sequence
\* served to the client and does not release the handle: the loop of the
\* stream-start endpoint goes back to its top for another pass, with
\* is_streaming as it was and every device as it was.
C12_FailedReadKeepsStreaming ==
    [][\A s \in 1..Len(sessions) :
          (sessions[s].pc = "gf_read" /\ sessions'[s].pc \notin {"gf_read", "gf_time"})
          => (/\ sessions'[s].pc = "gf_while"
              /\ is_streaming' = is_streaming
              /\ device' = device)]_vars

\* C13: no domain error leaves a handler uncaught: whatever the endpoint and
\* the camera's state, CameraNotFoundError, CameraNotStartedError and the
\* invalid-quality error are answered with a status the handler chose, never
\* with the 500 of an error that went through it.
C13_NoErrorEscapes == handler.pc = "respond" => handler.status # 500

\* The step is the call of the named setter for a camera of the registry.
SetterCall(op, c) == handler.pc = "idle" /\ handler'.op = op /\ handler'.cam = c

\* C14, the call: a quality below 0 or above 100 is refused and every field of
\* every camera and every device stays as it was, started or not; on a camera
\* that holds an open handle 0 and 100 are accepted and recorded.
C14_QualityCall ==
    \A c \in Cameras :
        SetterCall("set_image_quality", c) =>
            LET q == handler'.arg IN
            /\ (q < 0 \/ q > 100) => (handler'.status # 200 /\ UNCHANGED <<cam_vars, device>>)
            /\ (q \in {0, 100} /\ HoldsOpenHandle(c))
               => (handler'.status = 200 /\ image_quality'[c] = q)

\* C14: image_quality is within 0..100 in every reachable state;
\* set_image_quality(q) with q < 0 or q > 100 fails before it changes anything,
\* whether or not the camera is started, and on a started camera q = 0 and
\* q = 100 are accepted and recorded.
C14_QualityInRange ==
    /\ [](\A c \in Cameras : image_quality[c] \in 0..100)
    /\ [][C14_QualityCall]_vars

\* C14 witness: a started camera whose quality was set to the boundary value 0
\* has just refused 101.
C14_Witness ==
    /\ handler.op = "set_image_quality"
    /\ handler.pc = "respond"
    /\ handler.arg = 101
    /\ handler.status = 500
    /\ handler.cam \in Cameras
    /\ HoldsOpenHandle(handler.cam)
    /\ image_quality[handler.cam] = 0

\* C15, the call: set_fps(f) on a camera that holds no open handle is refused
\* and fps stays as it was; on a camera that holds one it is answered 200 and
\* fps is f.
C15_FpsCall ==
    \A c \in Cameras :
        SetterCall("set_fps", c) =>
            IF HoldsOpenHandle(c)
            THEN handler'.status = 200 /\ fps'[c] = handler'.arg
            ELSE handler'.status # 200 /\ fps' = fps

\* C15, the loop: a pass of the pacing loop takes its interval from the fps the
\* camera has when the pass computes it, so a pass that begins after a set_fps
\* uses the new value.
C15_PassUsesLiveFps ==
    \A s \in 1..Len(sessions) :
        (sessions[s].pc = "interval" /\ sessions'[s].pc = "cond")
        => (pacer'.wait[s].num = 1000 /\ pacer'.wait[s].den = fps[sessions[s].cam])

\* C15: set_fps(f) on a camera with no open handle fails with
\* CameraNotStartedError and leaves fps unchanged; after start the same call
\* succeeds and sets fps = f, and the first pass of the pacing loop that begins
\* after the call computes its interval from f.
C15_SetFpsNeedsOpenHandle == [][C15_FpsCall /\ C15_PassUsesLiveFps]_vars

\* The cameras get_available_cameras() lists when a request asks for them.
Listed == {get_available_cameras[i] : i \in 1..Len(get_available_cameras)}

\* C16: whenever a request can ask for it, get_available_cameras() returns in
\* registry order exactly the cameras that are not streaming; a camera is
\* absent from the list from its successful stream start until its end_stream,
\* and is listed again after end_stream.
C16_AvailableTracksStreams ==
    handler.pc = "idle" =>
        /\ \A i, j \in 1..Len(get_available_cameras) :
              i < j => get_available_cameras[i] < get_available_cameras[j]
        /\ \A c \in Cameras :
              /\ c \in Listed <=> ~is_streaming[c]
              /\ ((\E s \in SessionsOf(c) : device[sessions[s].cap].st # "failed") /\ ~ended[c])
                 => c \notin Listed
              /\ ended[c] => c \in Listed

StopPcs == {"stop_release", "stop_flag", "stop_null"}

\* The step is a step of a stop() on camera c: of the stop() inside reset(), or
\* of the stop() at the exit of one of the camera's loops.
StopStep(c) ==
    \/ handler.cam = c /\ handler.pc \in StopPcs /\ handler'.pc # handler.pc
    \/ \E s \in SessionsOf(c) : sessions[s].pc \in StopPcs /\ sessions'[s].pc # sessions[s].pc

\* The step is the last step of a stop() on camera c.
StopReturns(c) ==
    \/ handler.cam = c /\ handler.pc = "stop_null" /\ handler'.pc # handler.pc
    \/ \E s \in SessionsOf(c) : sessions[s].pc = "stop_null" /\ sessions'[s].pc = "done"

Stopped(c) == video_capture[c] = None /\ ~is_capturing[c]

\* C17, the steps: a step of stop() on a camera that is already stopped
\* releases nothing and changes no field, and when a stop() returns the camera
\* is stopped.
C17_StopSteps ==
    \A c \in Cameras :
        /\ (StopStep(c) /\ Stopped(c)) => UNCHANGED <<cam_vars, device>>
        /\ StopReturns(c) => (video_capture'[c] = None /\ ~is_capturing'[c])

\* C17: stop() is idempotent and total: on a camera that is already stopped
\* (handle null, is_capturing false) it raises nothing, releases nothing and
\* leaves every field as it was, and since every stop() ends in that stopped
\* state, stop(); stop() gives the state of a single stop().
C17_StopIdempotent == [][C17_StopSteps]_vars

\* C17 witness: the stop() at a loop's exit is about to run on a camera that a
\* stop() before it has already stopped.
C17_Witness ==
    \E s \in 1..Len(sessions) :
        /\ sessions[s].pc = "stop_release"
        /\ Stopped(sessions[s].cam)
        /\ \E n \in Handles : device[n].cam = sessions[s].cam /\ device[n].st = "released"

\* C18: a pass of the stream loop that finds the camera not capturing goes to
\* the idle wait before the loop checks again, and does not leave the loop:
\* from the test of line 171 when is_capturing is false, and from the test in
\* read() when is_capturing is false or the handle is null.
C18_IdleWaitWhenNotCapturing ==
    [][\A s \in 1..Len(sessions) :
          LET c == sessions[s].cam IN
          /\ (sessions[s].pc = "cond" /\ sessions'[s].pc # "cond" /\ ~is_capturing[c])
             => sessions'[s].pc = "sleep"
          /\ (/\ sessions[s].pc = "read" /\ sessions'[s].pc # "read"
              /\ (~is_capturing[c] \/ video_capture[c] = None))
             => sessions'[s].pc = "sleep"]_vars

\* The step pulls a frame from the device for generator s: cap.read() gave one.
PullsFrame(s) ==
    \/ sessions[s].pc = "gf_read" /\ sessions'[s].pc = "gf_time"
    \/ sessions[s].pc = "read_call" /\ sessions'[s].pc = "yield"

\* The step hands a frame of generator s to the transport.
EmitsFrame(s) ==
    \/ sessions[s].pc = "gf_yield" /\ sessions'[s].pc = "gf_resume"
    \/ sessions[s].pc = "yield" /\ sessions'[s].pc = "resume"

\* C19: on the millisecond clock, a pass of the pacing loop pulls a frame from
\* the device, and emits one, only when at least 1000 / fps milliseconds (fps
\* as the pass read it) have gone by since the stream's previous emitted frame;
\* so two consecutive emitted frames are never closer than the interval.
C19_FrameOnlyWhenDue ==
    [][\A s \in 1..Len(sessions) :
          (PullsFrame(s) \/ EmitsFrame(s))
          => \/ pacer.emit[s] = 0
             \/ (pacer.now - pacer.emit[s]) * pacer.wait[s].den >= 1000]_vars

\* C20, the two setters: on a camera that holds an open handle set_fps changes
\* that camera's fps and set_image_quality its image_quality, and nothing else:
\* the handle, the flags, the resolution and every device stay as they were.
C20_SetterFrame ==
    \A c \in Cameras :
        /\ (SetterCall("set_fps", c) /\ HoldsOpenHandle(c))
           => /\ fps' = [fps EXCEPT ![c] = handler'.arg]
              /\ UNCHANGED <<video_capture, is_capturing, is_streaming, resolution,
                             image_quality, device>>
        /\ (SetterCall("set_image_quality", c) /\ HoldsOpenHandle(c))
           => /\ \/ image_quality' = [image_quality EXCEPT ![c] = handler'.arg]
                 \/ image_quality' = image_quality /\ handler'.status # 200
              /\ UNCHANGED <<video_capture, is_capturing, is_streaming, resolution, fps, device>>

\* C20, availability: no step of a start, a reset or a set_* request, and no
\* step of a stop(), changes is_streaming of any camera.
C20_StreamingFlagKept ==
    (\/ handler' # handler /\ handler'.op # "end_stream"
     \/ \E c \in Cameras : StopStep(c))
    => is_streaming' = is_streaming

\* C20: set_fps and set_image_quality on a started camera change only fps,
\* respectively image_quality, with the same device handle and no release or
\* open; start, stop, reset and every set_* leave is_streaming unchanged.
C20_ReconfigurationFrame == [][C20_SetterFrame /\ C20_StreamingFlagKept]_vars

\* C20 witness: the frame rate of a camera that is streaming on an open handle
\* has just been changed.
C20_Witness ==
    /\ handler.op = "set_fps"
    /\ handler.pc = "respond"
    /\ handler.status = 200
    /\ handler.cam \in Cameras
    /\ fps[handler.cam] = handler.arg
    /\ handler.arg # DefaultFps
    /\ is_streaming[handler.cam]
    /\ HoldsOpenHandle(handler.cam)

====
